---- MODULE Spec2Model ----
(***************************************************************************)
(* Model of the distributed problem-assembly pipeline of                   *)
(* examples/mpi/mpi_amg.cpp and of the row split of                        *)
(* tutorial/2.Serena/serena_mpi_mixed.cpp.                                 *)
(*                                                                         *)
(* SpecLoad: every rank of the process group computes its row range and    *)
(*           loads (assembles or reads) its local chunk.                   *)
(* Spec:     main() of mpi_amg.cpp on every rank, from the command line to *)
(*           the report of the solve (builtin backend, the default build). *)
(* SpecSerena: main() of serena_mpi_mixed.cpp on every rank.               *)
(* SpecBoth: a run of either program.                                      *)
(***************************************************************************)
EXTENDS Integers, Sequences, FiniteSets, TLC

VARIABLES
    cfg,    \* the inputs of the run: command line, parameters, process count
    loc,    \* per rank: the row range and the local chunk (ptr, col, val, rhs)
    pc,     \* per rank: where main() is
    rhsv,   \* per rank: the backend right-hand side vector of solve_*()
    A,      \* per rank: the distributed matrix partition() returned
    log,    \* per rank: the matrix and solver operations done so far, in order
    out     \* per rank: what was written to std::cout, in order

vars == <<cfg, loc, pc, rhsv, A, log, out>>

\* ------------------------------------------------------------------ bounds
MaxGrid  == 4     \* largest grid side n of the synthetic problem
MaxRows  == 100   \* largest row count of a matrix file
MaxProcs == 4     \* largest process count
MaxAlign == 4     \* largest block_size argument of the problem sources
MainGrid == 2     \* Spec: largest grid side (a matrix file has a cube of rows)
MainProcs == 2    \* Spec: largest process count
MaxNewRows == 2   \* Spec: most rows the partitioner gives one rank
MaxSerenaRows == 7  \* SpecSerena: largest row count of the matrix file

\* ------------------------------------------------------- program constants
B == 3            \* block size of the Serena tutorial

\* --------------------------------------------------------------- C++ helpers
\* ptrdiff_t and size_t are 64 bits wide; no value of the model comes near
\* that width, so the integers are unbounded.
Abs(x) == IF x < 0 THEN -x ELSE x

Min(a, b) == IF b < a THEN b ELSE a

\* Integer division truncating toward zero.  A zero divisor is undefined
\* behaviour; the actions decide whether the division traps, and where it does
\* not the quotient is 0 (the result of a non-trapping divide instruction).
CDiv(a, b) ==
    IF b = 0 THEN 0
    ELSE IF (a < 0) = (b < 0) THEN Abs(a) \div Abs(b)
    ELSE -(Abs(a) \div Abs(b))

\* The remainder that goes with CDiv: (a/b)*b + a%b == a.
CRem(a, b) == a - b * CDiv(a, b)

Ones(len) == [x \in 1..(IF len < 0 THEN 0 ELSE len) |-> 1]

\* ------------------------------------------------- assemble_poisson3d: range
\* (variant: the chunk is not rounded up to a multiple of block_size)
PoissonChunkMut(n3, size, block_size) == CDiv(n3 + size - 1, size)

PoissonChunk(n3, size, block_size) ==
    LET chunk == CDiv(n3 + size - 1, size)
    IN  IF CRem(chunk, block_size) # 0
        THEN chunk + (block_size - CRem(chunk, block_size))
        ELSE chunk

PoissonRowBeg(n3, size, rank, block_size) ==
    Min(n3, PoissonChunk(n3, size, block_size) * rank)

\* (variant: row_end is not clipped to n3)
PoissonRowEndMut(n3, size, rank, block_size) ==
    PoissonRowBeg(n3, size, rank, block_size) + PoissonChunk(n3, size, block_size)

PoissonRowEnd(n3, size, rank, block_size) ==
    Min(n3, PoissonRowBeg(n3, size, rank, block_size)
            + PoissonChunk(n3, size, block_size))

\* ------------------------------------------------- read_matrix_market: range
\* (variant: n / size rounds down)
MMChunkMut(n, size, block_size) ==
    LET chunk == CDiv(n, size)
    IN  IF CRem(chunk, block_size) # 0
        THEN chunk + (block_size - CRem(chunk, block_size))
        ELSE chunk

MMChunk(n, size, block_size) ==
    LET chunk == CDiv(n + size - 1, size)
    IN  IF CRem(chunk, block_size) # 0
        THEN chunk + (block_size - CRem(chunk, block_size))
        ELSE chunk

MMRowBeg(n, size, rank, block_size) ==
    Min(n, MMChunk(n, size, block_size) * rank)

MMRowEnd(n, size, rank, block_size) ==
    Min(n, MMRowBeg(n, size, rank, block_size) + MMChunk(n, size, block_size))

\* -------------------------------------------------------- read_binary: range
\* (variant: the chunk is not rounded up to a multiple of block_size)
BinaryChunkMut(n, size, block_size) == CDiv(n + size - 1, size)

BinaryChunk(n, size, block_size) ==
    LET chunk == CDiv(n + size - 1, size)
    IN  IF CRem(chunk, block_size) # 0
        THEN chunk + (block_size - CRem(chunk, block_size))
        ELSE chunk

BinaryRowBeg(n, size, rank, block_size) ==
    Min(n, BinaryChunk(n, size, block_size) * rank)

BinaryRowEnd(n, size, rank, block_size) ==
    Min(n, BinaryRowBeg(n, size, rank, block_size)
           + BinaryChunk(n, size, block_size))

\* ------------------------------------------------ serena_mpi_mixed.cpp: range
SerenaChunk(rows, size) ==
    LET chunk == CDiv(rows + size - 1, size)
    IN  IF CRem(chunk, B) # 0 THEN chunk + (B - CRem(chunk, B)) ELSE chunk

SerenaRowBeg(rows, size, rank) == Min(rows, SerenaChunk(rows, size) * rank)

SerenaRowEnd(rows, size, rank) ==
    Min(rows, SerenaRowBeg(rows, size, rank) + SerenaChunk(rows, size))

\* ---------------------------------------------- assemble_poisson3d: stencil
\* One iteration of the loop over idx: the entries pushed to col and val, in
\* the order of the pushes, then the push of col.size() to ptr.
\* (variant: the neighbour idx + n*n is not stored)
StencilRowNoUp(idx, n, st) ==
    LET h2i == (n - 1) * (n - 1)
        k   == CDiv(idx, n * n)
        j   == CRem(CDiv(idx, n), n)
        i   == CRem(idx, n)
        e   == (IF k > 0 THEN <<[col |-> idx - n * n, val |-> -h2i]>> ELSE <<>>)
            \o (IF j > 0 THEN <<[col |-> idx - n, val |-> -h2i]>> ELSE <<>>)
            \o (IF i > 0 THEN <<[col |-> idx - 1, val |-> -h2i]>> ELSE <<>>)
            \o <<[col |-> idx, val |-> 6 * h2i]>>
            \o (IF i + 1 < n THEN <<[col |-> idx + 1, val |-> -h2i]>> ELSE <<>>)
            \o (IF j + 1 < n THEN <<[col |-> idx + n, val |-> -h2i]>> ELSE <<>>)
        col == st.col \o [x \in 1..Len(e) |-> e[x].col]
        val == st.val \o [x \in 1..Len(e) |-> e[x].val]
    IN  [ptr |-> Append(st.ptr, Len(col)), col |-> col, val |-> val]

\* (variant: the test of the neighbour idx + 1 is off by one)
StencilRowWrap(idx, n, st) ==
    LET h2i == (n - 1) * (n - 1)
        k   == CDiv(idx, n * n)
        j   == CRem(CDiv(idx, n), n)
        i   == CRem(idx, n)
        e   == (IF k > 0 THEN <<[col |-> idx - n * n, val |-> -h2i]>> ELSE <<>>)
            \o (IF j > 0 THEN <<[col |-> idx - n, val |-> -h2i]>> ELSE <<>>)
            \o (IF i > 0 THEN <<[col |-> idx - 1, val |-> -h2i]>> ELSE <<>>)
            \o <<[col |-> idx, val |-> 6 * h2i]>>
            \o (IF i + 1 <= n THEN <<[col |-> idx + 1, val |-> -h2i]>> ELSE <<>>)
            \o (IF j + 1 < n THEN <<[col |-> idx + n, val |-> -h2i]>> ELSE <<>>)
            \o (IF k + 1 < n THEN <<[col |-> idx + n * n, val |-> -h2i]>> ELSE <<>>)
        col == st.col \o [x \in 1..Len(e) |-> e[x].col]
        val == st.val \o [x \in 1..Len(e) |-> e[x].val]
    IN  [ptr |-> Append(st.ptr, Len(col)), col |-> col, val |-> val]

StencilRow(idx, n, st) ==
    LET h2i == (n - 1) * (n - 1)
        k   == CDiv(idx, n * n)
        j   == CRem(CDiv(idx, n), n)
        i   == CRem(idx, n)
        e   == (IF k > 0 THEN <<[col |-> idx - n * n, val |-> -h2i]>> ELSE <<>>)
            \o (IF j > 0 THEN <<[col |-> idx - n, val |-> -h2i]>> ELSE <<>>)
            \o (IF i > 0 THEN <<[col |-> idx - 1, val |-> -h2i]>> ELSE <<>>)
            \o <<[col |-> idx, val |-> 6 * h2i]>>
            \o (IF i + 1 < n THEN <<[col |-> idx + 1, val |-> -h2i]>> ELSE <<>>)
            \o (IF j + 1 < n THEN <<[col |-> idx + n, val |-> -h2i]>> ELSE <<>>)
            \o (IF k + 1 < n THEN <<[col |-> idx + n * n, val |-> -h2i]>> ELSE <<>>)
        col == st.col \o [x \in 1..Len(e) |-> e[x].col]
        val == st.val \o [x \in 1..Len(e) |-> e[x].val]
    IN  [ptr |-> Append(st.ptr, Len(col)), col |-> col, val |-> val]

\* for (idx = row_beg; idx < row_end; ++idx): the iterations idx..row_end-1
\* applied in order to the arrays st.  The iterations are run as those of the
\* first half followed by those of the second half, which keeps the depth of
\* the evaluation logarithmic in the number of rows (the test on the arrays
\* of the first half always holds: it only makes them evaluated before the
\* second half starts).
RECURSIVE StencilLoop(_, _, _, _)
StencilLoop(idx, row_end, n, st) ==
    IF idx >= row_end THEN st
    ELSE IF row_end = idx + 1 THEN StencilRow(idx, n, st)
    ELSE LET mid   == idx + ((row_end - idx) \div 2)
             first == StencilLoop(idx, mid, n, st)
         IN  IF Len(first.ptr) > 0 /\ Len(first.col) = Len(first.val)
             THEN StencilLoop(mid, row_end, n, first)
             ELSE first

\* The whole of assemble_poisson3d on one rank: what it leaves in ptr, col,
\* val and rhs, and the chunk it returns.
\* (variant: the loop runs over local instead of global row indices)
PoissonLocalMut(n, size, rank, block_size) ==
    LET n3      == n * n * n
        row_beg == PoissonRowBeg(n3, size, rank, block_size)
        row_end == PoissonRowEnd(n3, size, rank, block_size)
        chunk   == row_end - row_beg
        st      == StencilLoop(0, chunk, n,
                               [ptr |-> <<0>>, col |-> <<>>, val |-> <<>>])
    IN  [state |-> "loaded", row_beg |-> row_beg, row_end |-> row_end,
         chunk |-> chunk, kind |-> "crs",
         ptr |-> st.ptr, col |-> st.col, val |-> st.val, rhs |-> Ones(chunk)]

PoissonLocal(n, size, rank, block_size) ==
    LET n3      == n * n * n
        row_beg == PoissonRowBeg(n3, size, rank, block_size)
        row_end == PoissonRowEnd(n3, size, rank, block_size)
        chunk   == row_end - row_beg
        st      == StencilLoop(row_beg, row_end, n,
                               [ptr |-> <<0>>, col |-> <<>>, val |-> <<>>])
    IN  [state |-> "loaded", row_beg |-> row_beg, row_end |-> row_end,
         chunk |-> chunk, kind |-> "crs",
         ptr |-> st.ptr, col |-> st.col, val |-> st.val, rhs |-> Ones(chunk)]

\* ------------------------------------------------------------- file readers
\* The row-range readers (amgcl/io) return the rows [row_beg, row_end) of the
\* file; the file's contents stay abstract: entry x of a vector read from the
\* file is the pair <<"file", global row>>.
FileRhs(row_beg, row_end) ==
    [x \in 1..(IF row_end < row_beg THEN 0 ELSE row_end - row_beg)
        |-> <<"file", row_beg + x - 1>>]

\* The whole of read_matrix_market on one rank.
MMLocal(n, size, rank, block_size, rhs_file) ==
    LET row_beg == MMRowBeg(n, size, rank, block_size)
        row_end == MMRowEnd(n, size, rank, block_size)
        chunk   == row_end - row_beg
    IN  [state |-> "loaded", row_beg |-> row_beg, row_end |-> row_end,
         chunk |-> chunk, kind |-> "file",
         ptr |-> <<>>, col |-> <<>>, val |-> <<>>,
         rhs |-> IF rhs_file = "" THEN Ones(chunk)
                 ELSE FileRhs(row_beg, row_end)]

\* The whole of read_binary on one rank.
BinaryLocal(n, size, rank, block_size, rhs_file) ==
    LET row_beg == BinaryRowBeg(n, size, rank, block_size)
        row_end == BinaryRowEnd(n, size, rank, block_size)
        chunk   == row_end - row_beg
    IN  [state |-> "loaded", row_beg |-> row_beg, row_end |-> row_end,
         chunk |-> chunk, kind |-> "file",
         ptr |-> <<>>, col |-> <<>>, val |-> <<>>,
         rhs |-> IF rhs_file = "" THEN Ones(chunk)
                 ELSE FileRhs(row_beg, row_end)]

\* The row split and the read of the Serena tutorial on one rank (no
\* right-hand side is read: the tutorial uses a vector of ones).
SerenaLocal(rows, size, rank) ==
    LET row_beg == SerenaRowBeg(rows, size, rank)
        row_end == SerenaRowEnd(rows, size, rank)
        chunk   == row_end - row_beg
    IN  [state |-> "loaded", row_beg |-> row_beg, row_end |-> row_end,
         chunk |-> chunk, kind |-> "file",
         ptr |-> <<>>, col |-> <<>>, val |-> <<>>, rhs |-> <<>>]

\* ------------------------------------------------------------------- state
Ranks == 0..(cfg.size - 1)

\* No distributed matrix yet.
NoMatrix == [name |-> "none", from |-> "none", loc_rows |-> 0, moved |-> FALSE]

NotLoaded == [state |-> "init"]

Loaded(r) == loc[r].state = "loaded"

\* --------------------------------------------------------------- SpecLoad
\* Every rank loads its chunk once; the ranks run independently.
InitLoad ==
    /\ cfg \in [source : {"poisson"}, n : 0..MaxGrid, size : 1..MaxProcs,
                block_size : 1..MaxAlign, rhs_file : {""}]
          \cup [source : {"mm", "binary"}, n : 0..MaxRows, size : 1..MaxProcs,
                block_size : 1..MaxAlign, rhs_file : {"", "rhs.mtx"}]
          \cup [source : {"serena"}, n : 0..MaxRows, size : 1..MaxProcs,
                block_size : {B}, rhs_file : {""}]
    /\ loc = [r \in 0..(cfg.size - 1) |-> NotLoaded]
    /\ pc = [r \in 0..(cfg.size - 1) |-> "load"]
    /\ rhsv = [r \in 0..(cfg.size - 1) |-> <<>>]
    /\ A = [r \in 0..(cfg.size - 1) |-> NoMatrix]
    /\ log = [r \in 0..(cfg.size - 1) |-> <<>>]
    /\ out = [r \in 0..(cfg.size - 1) |-> <<>>]

AssemblePoisson3d(r) ==
    /\ cfg.source = "poisson"
    /\ ~Loaded(r)
    /\ loc' = [loc EXCEPT ![r] = PoissonLocal(cfg.n, cfg.size, r, cfg.block_size)]
    /\ UNCHANGED <<cfg, pc, rhsv, A, log, out>>

ReadMatrixMarket(r) ==
    /\ cfg.source = "mm"
    /\ ~Loaded(r)
    /\ loc' = [loc EXCEPT ![r] =
                  MMLocal(cfg.n, cfg.size, r, cfg.block_size, cfg.rhs_file)]
    /\ UNCHANGED <<cfg, pc, rhsv, A, log, out>>

ReadBinary(r) ==
    /\ cfg.source = "binary"
    /\ ~Loaded(r)
    /\ loc' = [loc EXCEPT ![r] =
                  BinaryLocal(cfg.n, cfg.size, r, cfg.block_size, cfg.rhs_file)]
    /\ UNCHANGED <<cfg, pc, rhsv, A, log, out>>

SerenaRead(r) ==
    /\ cfg.source = "serena"
    /\ ~Loaded(r)
    /\ loc' = [loc EXCEPT ![r] = SerenaLocal(cfg.n, cfg.size, r)]
    /\ UNCHANGED <<cfg, pc, rhsv, A, log, out>>

NextLoad ==
    \/ \E r \in Ranks : AssemblePoisson3d(r)
    \/ \E r \in Ranks : ReadMatrixMarket(r)
    \/ \E r \in Ranks : ReadBinary(r)
    \/ \E r \in Ranks : SerenaRead(r)

SpecLoad == InitLoad /\ [][NextLoad]_vars

\* =================================================================== main()
\* --block-size values tried, values of precond.coarsening.aggr.block_size,
\* and the --partitioner strategies.
BlockSizeArgs == {-2, 0, 1, 2, 3, 4, 5}

AggrBlocks == {1, 2}

PTypes == {"merge", "parmetis", "ptscotch"}

\* AMGCL_BLOCK_SIZES: the cases of the switch that call solve_block<B>.
BlockCases == {3, 4}

Op(op, obj, args) == [op |-> op, obj |-> obj, args |-> args]

\* std::vector::reserve and resize throw std::length_error for a negative
\* count (converted to a huge size_t); nothing catches it.
LoadThrows(local) == local.chunk < 0

\* The rows of the matrix partition() builds from the local strip: chunk
\* scalar rows, or chunk / B block rows under block_matrix<B>.
StripRows(chunk, bsz) == CDiv(chunk, bsz)

\* The backend right-hand side solve_scalar (bsz = 1) and solve_block<B> build
\* from f: f itself, or f reinterpreted as chunk / B blocks of B values.
BackendRhs(f, chunk, bsz) ==
    IF bsz = 1 THEN f
    ELSE [x \in 1..CDiv(chunk, bsz) |-> SubSeq(f, bsz * (x - 1) + 1, bsz * x)]

\* if (comm.size == 1 || ptype == merge) return A;
\* (variant: && instead of ||)
SkipPartitionMut(size, ptype) == size = 1 /\ ptype = "merge"

SkipPartition(size, ptype) == size = 1 \/ ptype = "merge"

\* (variant of partition(): J is moved to the backend after the spmv)
PartitionResultMut(size, ptype, strip_rows, rhs, block_size, new_rows) ==
    IF SkipPartition(size, ptype)
    THEN [A   |-> [name |-> "A", from |-> "strip", loc_rows |-> strip_rows,
                   moved |-> FALSE],
          rhs |-> rhs,
          ops |-> <<Op("construct", "A", <<"Astrip">>)>>]
    ELSE [A   |-> [name |-> "JAI", from |-> "product", loc_rows |-> new_rows,
                   moved |-> FALSE],
          rhs |-> [x \in 1..new_rows |-> "J*rhs"],
          ops |-> << Op("construct", "A", <<"Astrip">>),
                     Op("partitioner", "I", <<"A", block_size>>),
                     Op("transpose", "J", <<"I">>),
                     Op("product", "AI", <<"A", "I">>),
                     Op("product", "JAI", <<"J", "AI">>),
                     Op("new_rhs", "new_rhs", <<"J", new_rows>>),
                     Op("spmv", "new_rhs", <<"J", "rhs">>),
                     Op("move_to_backend", "J", <<"J">>),
                     Op("swap", "rhs", <<"rhs", "new_rhs">>) >>]

\* partition(): the matrix it returns, the right-hand side it leaves and the
\* operations it performs, in order.  new_rows is the number of local rows
\* the partitioner gives this rank (the local columns of I, the local rows
\* of J = transpose(I)).
PartitionResult(size, ptype, strip_rows, rhs, block_size, new_rows) ==
    IF SkipPartition(size, ptype)
    THEN [A   |-> [name |-> "A", from |-> "strip", loc_rows |-> strip_rows,
                   moved |-> FALSE],
          rhs |-> rhs,
          ops |-> <<Op("construct", "A", <<"Astrip">>)>>]
    ELSE [A   |-> [name |-> "JAI", from |-> "product", loc_rows |-> new_rows,
                   moved |-> FALSE],
          rhs |-> [x \in 1..new_rows |-> "J*rhs"],
          ops |-> << Op("construct", "A", <<"Astrip">>),
                     Op("partitioner", "I", <<"A", block_size>>),
                     Op("transpose", "J", <<"I">>),
                     Op("product", "AI", <<"A", "I">>),
                     Op("product", "JAI", <<"J", "AI">>),
                     Op("new_rhs", "new_rhs", <<"J", new_rows>>),
                     Op("move_to_backend", "J", <<"J">>),
                     Op("spmv", "new_rhs", <<"J", "rhs">>),
                     Op("swap", "rhs", <<"rhs", "new_rhs">>) >>]

Cout(r, text) == IF r = 0 THEN [out EXCEPT ![r] = Append(@, text)] ELSE out

Init ==
    /\ cfg \in [source : {"poisson", "mm", "binary"}, n : 1..MainGrid,
                size : 1..MainProcs, block_size : BlockSizeArgs,
                aggr_block : AggrBlocks, ptype : PTypes, help : BOOLEAN,
                rhs_file : {""}]
    /\ loc = [r \in 0..(cfg.size - 1) |-> NotLoaded]
    /\ pc = [r \in 0..(cfg.size - 1) |-> "start"]
    /\ rhsv = [r \in 0..(cfg.size - 1) |-> <<>>]
    /\ A = [r \in 0..(cfg.size - 1) |-> NoMatrix]
    /\ log = [r \in 0..(cfg.size - 1) |-> <<>>]
    /\ out = [r \in 0..(cfg.size - 1) |-> <<>>]

\* main(), lines 415-511: the world size is printed on rank 0, the command
\* line is parsed and --help returns 0.
MainStart(r) ==
    /\ pc[r] = "start"
    /\ out' = IF r # 0 THEN out
              ELSE [out EXCEPT ![r] =
                       IF cfg.help THEN <<"World size", "Options">>
                       ELSE <<"World size">>]
    /\ pc' = [pc EXCEPT ![r] = IF cfg.help THEN "done" ELSE "load"]
    /\ UNCHANGED <<cfg, loc, rhsv, A, log>>

\* What the problem source selected by the command line returns on rank r,
\* called with block_size * aggr_block.
MainLocal(r) ==
    LET align == cfg.block_size * cfg.aggr_block
        rows  == cfg.n * cfg.n * cfg.n
    IN  IF cfg.source = "poisson"
        THEN PoissonLocal(cfg.n, cfg.size, r, align)
        ELSE IF cfg.source = "binary"
        THEN BinaryLocal(rows, cfg.size, r, align, cfg.rhs_file)
        ELSE MMLocal(rows, cfg.size, r, align, cfg.rhs_file)

\* main(), lines 513-542: the local chunk is read or assembled.  With
\* block_size * aggr_block = 0 the source evaluates chunk % 0, which is
\* undefined: the division traps (the rank is killed) or it does not.  A
\* negative chunk makes the source throw.
MainLoad(r) ==
    /\ pc[r] = "load"
    /\ \E traps \in BOOLEAN :
          IF (cfg.block_size * cfg.aggr_block = 0 /\ traps)
             \/ LoadThrows(MainLocal(r))
          THEN /\ pc' = [pc EXCEPT ![r] = "crashed"]
               /\ UNCHANGED loc
          ELSE /\ pc' = [pc EXCEPT ![r] = "dispatch"]
               /\ loc' = [loc EXCEPT ![r] = MainLocal(r)]
    /\ UNCHANGED <<cfg, rhsv, A, log, out>>

\* solve_block, lines 276-279: the blocks are read from &f[0].  On a rank
\* whose chunk is empty f is empty and f[0] is undefined: the subscript check
\* of the standard library aborts the process, or the address is formed and
\* the range of blocks is empty.  solve_scalar copies f and has no such use.
EmptySubscript(f, bsz) == bsz \in BlockCases /\ Len(f) = 0

\* main(), lines 544-565: the switch over block_size.  Cases 3 and 4 enter
\* solve_block<B>, case 1 enters solve_scalar, which build the backend
\* right-hand side; anything else is reported on rank 0 and main returns.
MainDispatch(r) ==
    /\ pc[r] = "dispatch"
    /\ IF cfg.block_size \in BlockCases \cup {1}
       THEN \E aborts \in BOOLEAN :
               IF EmptySubscript(loc[r].rhs, cfg.block_size) /\ aborts
               THEN /\ pc' = [pc EXCEPT ![r] = "crashed"]
                    /\ UNCHANGED <<rhsv, out>>
               ELSE /\ rhsv' = [rhsv EXCEPT ![r] =
                           BackendRhs(loc[r].rhs, loc[r].chunk, cfg.block_size)]
                    /\ pc' = [pc EXCEPT ![r] = "partition"]
                    /\ out' = out
       ELSE /\ out' = Cout(r, "Unsupported block size!")
            /\ pc' = [pc EXCEPT ![r] = "done"]
            /\ rhsv' = rhsv
    /\ UNCHANGED <<cfg, loc, A, log>>

\* solve_scalar / solve_block: the call of partition().
Partition(r) ==
    /\ pc[r] = "partition"
    /\ \E new_rows \in 0..MaxNewRows :
          LET res == PartitionResult(cfg.size, cfg.ptype,
                                     StripRows(loc[r].chunk, cfg.block_size),
                                     rhsv[r], cfg.aggr_block, new_rows)
          IN  /\ A' = [A EXCEPT ![r] = res.A]
              /\ rhsv' = [rhsv EXCEPT ![r] = res.rhs]
              /\ log' = [log EXCEPT ![r] = @ \o res.ops]
    /\ pc' = [pc EXCEPT ![r] = "setup"]
    /\ UNCHANGED <<cfg, loc, out>>

\* solve_scalar / solve_block: Solver solve(comm, A, prm, bprm), and the
\* solver's summary on rank 0.
Setup(r) ==
    /\ pc[r] = "setup"
    /\ log' = [log EXCEPT ![r] = Append(@, Op("setup", "solve", <<A[r].name>>))]
    /\ out' = Cout(r, "solver")
    /\ pc' = [pc EXCEPT ![r] = "solve"]
    /\ UNCHANGED <<cfg, loc, rhsv, A>>

\* solve_scalar / solve_block: x is allocated with A->loc_rows() entries,
\* solve(rhs, x) runs, and rank 0 reports iterations, error and profile.
Solve(r) ==
    /\ pc[r] = "solve"
    /\ log' = [log EXCEPT ![r] =
                  Append(@, Op("solve", "x", <<"rhs", A[r].loc_rows>>))]
    /\ out' = Cout(r, "Iterations, Error, profile")
    /\ pc' = [pc EXCEPT ![r] = "done"]
    /\ UNCHANGED <<cfg, loc, rhsv, A>>

Next ==
    \/ \E r \in Ranks : MainStart(r)
    \/ \E r \in Ranks : MainLoad(r)
    \/ \E r \in Ranks : MainDispatch(r)
    \/ \E r \in Ranks : Partition(r)
    \/ \E r \in Ranks : Setup(r)
    \/ \E r \in Ranks : Solve(r)

Spec == Init /\ [][Next]_vars

\* ======================================================= Serena tutorial
\* main() of serena_mpi_mixed.cpp, lines 79-117: D, the scaled matrix
\* Ad = D * (A * D) and its single-precision copy Af, in the order of the
\* calls.  The two arguments Ad->local() and Ad->remote() of make_shared are
\* evaluated in either order.
\* (variant: Ad is moved to the backend before it is copied into Af)
SerenaScaleOpsMut(local_first) ==
    << Op("construct", "D", <<"dia">>),
       Op("construct", "A", <<"Astrip">>),
       Op("product", "AD", <<"A", "D">>),
       Op("product", "Ad", <<"D", "AD">>),
       Op("move_to_backend", "Ad", <<"Ad">>) >>
    \o (IF local_first
        THEN <<Op("local", "Ad", <<"Ad">>), Op("remote", "Ad", <<"Ad">>)>>
        ELSE <<Op("remote", "Ad", <<"Ad">>), Op("local", "Ad", <<"Ad">>)>>)
    \o <<Op("construct", "Af", <<"Ad.local", "Ad.remote">>)>>

SerenaScaleOps(local_first) ==
    << Op("construct", "D", <<"dia">>),
       Op("construct", "A", <<"Astrip">>),
       Op("product", "AD", <<"A", "D">>),
       Op("product", "Ad", <<"D", "AD">>) >>
    \o (IF local_first
        THEN <<Op("local", "Ad", <<"Ad">>), Op("remote", "Ad", <<"Ad">>)>>
        ELSE <<Op("remote", "Ad", <<"Ad">>), Op("local", "Ad", <<"Ad">>)>>)
    \o <<Op("construct", "Af", <<"Ad.local", "Ad.remote">>)>>

\* main(), lines 121-134: Ad->move_to_backend(), then the solver is set up
\* with Af.
SerenaSetupOps ==
    << Op("move_to_backend", "Ad", <<"Ad">>),
       Op("setup", "solve", <<"Af">>) >>

InitSerena ==
    /\ cfg \in [source : {"serena"}, n : 0..MaxSerenaRows,
                size : 1..MainProcs, argc : {1, 2}]
    /\ loc = [r \in 0..(cfg.size - 1) |-> NotLoaded]
    /\ pc = [r \in 0..(cfg.size - 1) |-> "s_start"]
    /\ rhsv = [r \in 0..(cfg.size - 1) |-> <<>>]
    /\ A = [r \in 0..(cfg.size - 1) |-> NoMatrix]
    /\ log = [r \in 0..(cfg.size - 1) |-> <<>>]
    /\ out = [r \in 0..(cfg.size - 1) |-> <<>>]

\* main(), lines 22-30: without a matrix file name every process writes the
\* usage and returns 1.
SerenaStart(r) ==
    /\ pc[r] = "s_start"
    /\ IF cfg.argc < 2
       THEN /\ out' = [out EXCEPT ![r] = Append(@, "Usage")]
            /\ pc' = [pc EXCEPT ![r] = "done"]
       ELSE /\ out' = out
            /\ pc' = [pc EXCEPT ![r] = "s_read"]
    /\ UNCHANGED <<cfg, loc, rhsv, A, log>>

\* main(), lines 35-55: the row split and the read of the local rows.
SerenaMainRead(r) ==
    /\ pc[r] = "s_read"
    /\ out' = Cout(r, "World size, Matrix rows")
    /\ loc' = [loc EXCEPT ![r] = SerenaLocal(cfg.n, cfg.size, r)]
    /\ pc' = [pc EXCEPT ![r] = "s_scale"]
    /\ UNCHANGED <<cfg, rhsv, A, log>>

\* main(), lines 79-117: the scaling.
SerenaScale(r) ==
    /\ pc[r] = "s_scale"
    /\ \E local_first \in BOOLEAN :
          log' = [log EXCEPT ![r] = @ \o SerenaScaleOps(local_first)]
    /\ pc' = [pc EXCEPT ![r] = "s_setup"]
    /\ UNCHANGED <<cfg, loc, rhsv, A, out>>

\* main(), lines 119-137: the setup.
SerenaSetup(r) ==
    /\ pc[r] = "s_setup"
    /\ log' = [log EXCEPT ![r] = @ \o SerenaSetupOps]
    /\ out' = Cout(r, "solver")
    /\ pc' = [pc EXCEPT ![r] = "s_solve"]
    /\ UNCHANGED <<cfg, loc, rhsv, A>>

\* main(), lines 139-157: the solve with Ad, on chunk / B blocks of dia.
SerenaSolve(r) ==
    /\ pc[r] = "s_solve"
    /\ rhsv' = [rhsv EXCEPT ![r] =
                   [x \in 1..CDiv(loc[r].chunk, B) |-> "dia"]]
    /\ log' = [log EXCEPT ![r] =
                  Append(@, Op("solve", "X", <<"Ad", "F", CDiv(loc[r].chunk, B)>>))]
    /\ out' = Cout(r, "Iterations, Error, profile")
    /\ pc' = [pc EXCEPT ![r] = "done"]
    /\ UNCHANGED <<cfg, loc, A>>

NextSerena ==
    \/ \E r \in Ranks : SerenaStart(r)
    \/ \E r \in Ranks : SerenaMainRead(r)
    \/ \E r \in Ranks : SerenaScale(r)
    \/ \E r \in Ranks : SerenaSetup(r)
    \/ \E r \in Ranks : SerenaSolve(r)

SpecSerena == InitSerena /\ [][NextSerena]_vars

\* A run of mpi_amg or of the Serena tutorial.
InitBoth == Init \/ InitSerena

NextBoth == Next \/ NextSerena

SpecBoth == InitBoth /\ [][NextBoth]_vars

\* ================================================================ claims
\* (checked under SpecLoad)
IsAmg == cfg.source \in {"poisson", "mm", "binary"}

\* The global row count N of the run.
GlobalRows == IF cfg.source = "poisson" THEN cfg.n * cfg.n * cfg.n ELSE cfg.n

AllLoaded == \A r \in Ranks : Loaded(r)

RangeLen(r) == loc[r].row_end - loc[r].row_beg

\* C1: the ranges [row_beg, row_end) of ranks 0..P-1 partition [0, N): rank 0
\* starts at 0, each rank ends where the next one starts, the last rank ends
\* at N, and 0 <= row_beg <= row_end <= N on every rank.
C1_RangesPartition ==
    \A r \in Ranks :
        (IsAmg /\ Loaded(r)) =>
            /\ 0 <= loc[r].row_beg
            /\ loc[r].row_beg <= loc[r].row_end
            /\ loc[r].row_end <= GlobalRows
            /\ (r = 0 => loc[r].row_beg = 0)
            /\ (r = cfg.size - 1 => loc[r].row_end = GlobalRows)
            /\ ((r + 1 \in Ranks /\ Loaded(r + 1)) =>
                    loc[r].row_end = loc[r + 1].row_beg)

\* C1 witness: every rank has its range, N > 0, and a trailing rank owns no row.
C1_Witness ==
    /\ IsAmg /\ AllLoaded /\ cfg.size >= 3 /\ GlobalRows > 0
    /\ RangeLen(cfg.size - 1) = 0
    /\ RangeLen(0) > 0

\* C2: the length of every rank's range is a multiple of the alignment, except
\* possibly for the last non-empty range.
C2_LengthsAligned ==
    (IsAmg /\ AllLoaded) =>
        \A r \in Ranks :
            \/ CRem(RangeLen(r), cfg.block_size) = 0
            \/ /\ RangeLen(r) > 0
               /\ \A q \in Ranks : q > r => RangeLen(q) = 0

\* C2 witness: a last non-empty range shorter than a multiple of the
\* alignment, after a full range and before an empty one.
C2_Witness ==
    /\ IsAmg /\ AllLoaded
    /\ \E r \in Ranks :
          /\ r > 0 /\ r + 1 \in Ranks
          /\ CRem(RangeLen(r), cfg.block_size) # 0
          /\ RangeLen(r + 1) = 0

\* assign(N, P, rank, align) as the specification words it: chunk = ceil(N / P)
\* rounded up to the next multiple of align.
AssignChunk(N, P, align) ==
    LET ceil == IF N % P = 0 THEN N \div P ELSE (N \div P) + 1
    IN  CHOOSE m \in ceil..(ceil + align - 1) : m % align = 0

AssignBeg(N, P, rank, align) == Min(N, AssignChunk(N, P, align) * rank)

AssignEnd(N, P, rank, align) ==
    Min(N, AssignBeg(N, P, rank, align) + AssignChunk(N, P, align))

\* C3: the range every problem source computes is the one of assign(N, P,
\* rank, align), so that the three sources agree on every boundary; for
\* N = 100, P = 3, align = 4 the ranges are [0,36), [36,72), [72,100).
C3_SourcesAgreeWithAssign ==
    IsAmg =>
        \A r \in Ranks :
            LET N  == GlobalRows
                P  == cfg.size
                a  == cfg.block_size
                ab == AssignBeg(N, P, r, a)
                ae == AssignEnd(N, P, r, a)
            IN  /\ Loaded(r) => (loc[r].row_beg = ab /\ loc[r].row_end = ae)
                /\ PoissonRowBeg(N, P, r, a) = ab /\ PoissonRowEnd(N, P, r, a) = ae
                /\ MMRowBeg(N, P, r, a) = ab /\ MMRowEnd(N, P, r, a) = ae
                /\ BinaryRowBeg(N, P, r, a) = ab /\ BinaryRowEnd(N, P, r, a) = ae
                /\ (Loaded(r) /\ N = 100 /\ P = 3 /\ a = 4) =>
                      <<loc[r].row_beg, loc[r].row_end>> =
                          (0 :> <<0, 36>> @@ 1 :> <<36, 72>> @@ 2 :> <<72, 100>>)[r]

\* C3 witness: the scenario N = 100, P = 3, align = 4 read from a MatrixMarket
\* file, every rank done, rank 2 with the 28 rows [72, 100).
C3_Witness ==
    /\ cfg.source = "mm" /\ cfg.n = 100 /\ cfg.size = 3 /\ cfg.block_size = 4
    /\ AllLoaded
    /\ loc[2].chunk = 28

\* C4 as stated: row_beg and row_end of every rank are multiples of the
\* alignment, the only exception being the end of the final range, which is N.
C4_AsStated ==
    \A r \in Ranks :
        (IsAmg /\ Loaded(r)) =>
            /\ CRem(loc[r].row_beg, cfg.block_size) = 0
            /\ \/ CRem(loc[r].row_end, cfg.block_size) = 0
               \/ loc[r].row_end = GlobalRows

\* C4 (amended): row_beg and row_end of every rank are each a multiple of the
\* alignment or equal to N; a row_beg that is no multiple of the alignment is
\* the start of an empty range at N.
C4_BoundsAlignedOrN ==
    \A r \in Ranks :
        (IsAmg /\ Loaded(r)) =>
            /\ \/ CRem(loc[r].row_beg, cfg.block_size) = 0
               \/ (loc[r].row_beg = GlobalRows /\ loc[r].row_end = GlobalRows)
            /\ \/ CRem(loc[r].row_end, cfg.block_size) = 0
               \/ loc[r].row_end = GlobalRows

\* C4 witness: an empty trailing range that starts at an N which is no
\* multiple of the alignment.
C4_Witness ==
    /\ IsAmg
    /\ \E r \in Ranks :
          /\ Loaded(r)
          /\ loc[r].row_beg = GlobalRows
          /\ CRem(GlobalRows, cfg.block_size) # 0

\* C5: in the Serena tutorial the chunk size row_end - row_beg of every
\* process is divisible by the block size B.
C5_SerenaChunkDivisible ==
    \A r \in Ranks :
        (cfg.source = "serena" /\ Loaded(r)) => CRem(loc[r].chunk, B) = 0

\* The chunks of ranks 0..r, concatenated in rank order: the row pointers of a
\* chunk are rebased by the number of entries before it.
RECURSIVE ConcatChunks(_)
ConcatChunks(r) ==
    IF r < 0
    THEN [ptr |-> <<0>>, col |-> <<>>, val |-> <<>>, rhs |-> <<>>]
    ELSE LET a == ConcatChunks(r - 1)
             b == loc[r]
         IN  [ptr |-> a.ptr \o [x \in 1..(Len(b.ptr) - 1)
                                   |-> b.ptr[x + 1] + Len(a.col)],
              col |-> a.col \o b.col,
              val |-> a.val \o b.val,
              rhs |-> a.rhs \o b.rhs]

\* C6: the chunks assemble_poisson3d produces on ranks 0..P-1, concatenated
\* in rank order, are the matrix and right-hand side it produces with P = 1.
C6_ConcatIsSingleProcess ==
    (cfg.source = "poisson" /\ AllLoaded) =>
        LET all == ConcatChunks(cfg.size - 1)
            one == PoissonLocal(cfg.n, 1, 0, cfg.block_size)
        IN  /\ all.ptr = one.ptr
            /\ all.col = one.col
            /\ all.val = one.val
            /\ all.rhs = one.rhs

\* C6 witness: a grid split over several ranks, the first two of which own rows.
C6_Witness ==
    /\ cfg.source = "poisson" /\ AllLoaded
    /\ cfg.size >= 2 /\ cfg.n >= 2
    /\ loc[0].chunk > 0 /\ loc[1].chunk > 0
    /\ Len(ConcatChunks(cfg.size - 1).col) > Len(loc[0].col)

\* The entries the 7-point stencil has in row idx of a grid of side n, as
\* <<column, value>> pairs.
StencilOffsets(idx, n) ==
    LET i == idx % n
        j == (idx \div n) % n
        k == idx \div (n * n)
    IN  (IF i > 0 THEN <<-1>> ELSE <<>>) \o (IF i + 1 < n THEN <<1>> ELSE <<>>)
     \o (IF j > 0 THEN <<-n>> ELSE <<>>) \o (IF j + 1 < n THEN <<n>> ELSE <<>>)
     \o (IF k > 0 THEN <<-(n * n)>> ELSE <<>>)
     \o (IF k + 1 < n THEN <<n * n>> ELSE <<>>)

StencilEntries(idx, n) ==
    {<<idx, 6 * (n - 1) * (n - 1)>>}
    \cup {<<idx + StencilOffsets(idx, n)[x], -((n - 1) * (n - 1))>> :
             x \in 1..Len(StencilOffsets(idx, n))}

\* The entries stored for local row x (1-based) of rank r.
StoredRow(r, x) ==
    [y \in 1..(loc[r].ptr[x + 1] - loc[r].ptr[x]) |->
        <<loc[r].col[loc[r].ptr[x] + y], loc[r].val[loc[r].ptr[x] + y]>>]

\* C7: every row idx of a rank's range holds exactly the diagonal entry
\* 6*(n-1)^2 and one entry -(n-1)^2 per axis neighbour inside the grid, so it
\* has 1 to 7 entries with columns in [0, n^3); ptr starts at 0, is
\* non-decreasing, has chunk + 1 entries and ends at the number of stored
\* entries; the right-hand side is all ones.
C7_StencilRows ==
    \A r \in Ranks :
        (cfg.source = "poisson" /\ Loaded(r)) =>
            LET c == loc[r] IN
            /\ Len(c.ptr) = c.chunk + 1
            /\ c.ptr[1] = 0
            /\ c.ptr[Len(c.ptr)] = Len(c.col)
            /\ Len(c.val) = Len(c.col)
            /\ \A x \in 1..c.chunk : c.ptr[x] <= c.ptr[x + 1]
            /\ \A y \in 1..Len(c.col) : c.col[y] \in 0..(GlobalRows - 1)
            /\ c.rhs = [x \in 1..c.chunk |-> 1]
            /\ \A x \in 1..c.chunk :
                  LET idx == c.row_beg + x - 1
                      row == StoredRow(r, x)
                  IN  /\ Len(row) = 1 + Len(StencilOffsets(idx, cfg.n))
                      /\ Len(row) \in 1..7
                      /\ {row[y] : y \in 1..Len(row)} = StencilEntries(idx, cfg.n)

\* C7 witness: a rank other than rank 0 whose range holds an interior row
\* (7 entries) and a row with fewer entries.
C7_Witness ==
    /\ cfg.source = "poisson"
    /\ \E r \in Ranks :
          /\ r > 0 /\ Loaded(r)
          /\ \E x \in 1..loc[r].chunk : Len(StoredRow(r, x)) = 7
          /\ \E x \in 1..loc[r].chunk : Len(StoredRow(r, x)) < 7

\* The scenario n = 4 (N = 64), one process, block size 1, assembled.
Scenario4 ==
    /\ cfg.source = "poisson" /\ cfg.n = 4 /\ cfg.size = 1
    /\ cfg.block_size = 1 /\ Loaded(0)

\* C8 as stated: in that scenario row 0 has exactly 3 non-zeros, the diagonal
\* 54 and two neighbours of value -9, and the right-hand side is all ones.
C8_AsStated ==
    Scenario4 =>
        LET row == StoredRow(0, 1) IN
        /\ Len(row) = 3
        /\ Cardinality({y \in 1..Len(row) : row[y] = <<0, 54>>}) = 1
        /\ Cardinality({y \in 1..Len(row) : row[y][1] > 0 /\ row[y][2] = -9}) = 2
        /\ loc[0].rhs = [x \in 1..64 |-> 1]

\* C8 (amended): in that scenario row 0 has exactly 4 non-zeros, the diagonal
\* 54 and the three positive-index neighbours (columns 1, 4 and 16) of value
\* -9 each, and the right-hand side is all ones.
C8_RowZeroHasFour ==
    Scenario4 =>
        LET row == StoredRow(0, 1) IN
        /\ Len(row) = 4
        /\ {row[y] : y \in 1..Len(row)} = {<<0, 54>>, <<1, -9>>, <<4, -9>>, <<16, -9>>}
        /\ loc[0].rhs = [x \in 1..64 |-> 1]

\* C8 witness: the scenario, assembled, with 64 rows.
C8_Witness == Scenario4 /\ loc[0].chunk = 64 /\ Len(loc[0].ptr) = 65

\* ---------------------------------------------------------------- (Spec)
\* The operations of the repartitioning path of partition().
RepartitionOps ==
    {"partitioner", "transpose", "product", "new_rhs", "move_to_backend",
     "spmv", "swap"}

LogOps(r) == {log[r][x].op : x \in 1..Len(log[r])}

\* C9: with one process, or with the merge strategy, partition() returns the
\* matrix built from the local chunk and leaves the right-hand side as it
\* was: no partitioner call, transpose, product, move to the backend or
\* matrix-vector product is done, whatever the aggregation block size.
C9_MergeOrSingleIsNoOp ==
    \A r \in Ranks :
        (A[r].name # "none" /\ (cfg.size = 1 \/ cfg.ptype = "merge")) =>
            /\ A[r].name = "A" /\ A[r].from = "strip" /\ ~A[r].moved
            /\ A[r].loc_rows = CDiv(loc[r].chunk, cfg.block_size)
            /\ rhsv[r] = BackendRhs(loc[r].rhs, loc[r].chunk, cfg.block_size)
            /\ LogOps(r) \cap RepartitionOps = {}
            /\ log[r][1] = Op("construct", "A", <<"Astrip">>)

\* C9 witness: partition() has just returned on a rank of a group of several
\* processes run with the merge strategy, an aggregation block size of 2 and
\* a non-empty chunk.
C9_Witness ==
    \E r \in Ranks :
        /\ pc[r] = "setup"
        /\ cfg.size >= 2 /\ cfg.ptype = "merge" /\ cfg.aggr_block = 2
        /\ loc[r].chunk > 0 /\ Len(rhsv[r]) > 0

\* C10: for a requested block size outside {1, 3, 4} the run reports
\* "Unsupported block size!" on rank 0 and does no repartitioning, solver
\* setup or solve on any rank (stated of every rank whose main() has ended).
C10_UnsupportedReported ==
    \A r \in Ranks :
        (~cfg.help /\ cfg.block_size \notin {1, 3, 4}
                   /\ pc[r] \in {"done", "crashed"}) =>
            /\ r = 0 => \E x \in 1..Len(out[0]) : out[0][x] = "Unsupported block size!"
            /\ \A q \in Ranks : log[q] = <<>>

\* ------------------------------------------------------------ (SpecBoth)
\* The operations that need the composable form of their matrix arguments.
ComposeOps == {"product", "transpose", "local", "remote"}

\* Operation x of rank r uses the matrix instance named m.
Uses(r, x, m) == \E y \in 1..Len(log[r][x].args) : log[r][x].args[y] = m

MovedAt(r, x) == log[r][x].op = "move_to_backend"

\* C11: in both programs no product, transpose or access to the local and
\* remote parts is done on a matrix instance after move_to_backend was called
\* on it, and the driver moves an instance at most once; J (partition, an
\* operand) and Ad (Serena, the result) take part in a product, and Ad is
\* copied into Af, before they are moved.
C11_NoCompositionAfterMove ==
    \A r \in Ranks :
        \A x \in 1..Len(log[r]) :
            MovedAt(r, x) =>
                LET m == log[r][x].obj IN
                /\ m \in {"J", "Ad"}
                /\ \A y \in (x + 1)..Len(log[r]) :
                      /\ ~(log[r][y].op \in ComposeOps /\ Uses(r, y, m))
                      /\ ~(MovedAt(r, y) /\ log[r][y].obj = m)
                /\ \E y \in 1..(x - 1) :
                      /\ log[r][y].op = "product"
                      /\ (Uses(r, y, m) \/ log[r][y].obj = m)
                /\ m = "Ad" =>
                      \E y, z \in 1..(x - 1) :
                          /\ log[r][y].op = "local" /\ Uses(r, y, m)
                          /\ log[r][z].op = "remote" /\ Uses(r, z, m)

\* C11 witness: a rank of the Serena tutorial that read Ad's remote part
\* before its local part, moved Ad and has solved with it.
C11_Witness ==
    \E r \in Ranks :
        /\ cfg.source = "serena" /\ pc[r] = "done"
        /\ \E x, y, z \in 1..Len(log[r]) :
              /\ x < y /\ y < z
              /\ log[r][x].op = "remote" /\ log[r][y].op = "local"
              /\ MovedAt(r, z) /\ log[r][z].obj = "Ad"
        /\ log[r][Len(log[r])].op = "solve"

\* ---------------------------------------------------------------- (Spec)
\* partition() repartitioned on rank r: it has returned, and was not skipped.
Repartitioned(r) ==
    A[r].name # "none" /\ cfg.size # 1 /\ cfg.ptype # "merge"

\* The operations of rank r other than the construction of A and the
\* allocation of new_rhs, up to the return of partition().
PartitionSteps(r) ==
    SelectSeq(SubSeq(log[r], 1, 9),
              LAMBDA o : o.op \notin {"construct", "new_rhs"})

\* C12: when it is not skipped, partition() obtains I from the partitioner,
\* J = transpose(I), A' = J x (A x I), moves J to the backend, computes
\* rhs' = J x rhs and replaces rhs by rhs', in this order; J is moved
\* before the matrix-vector product, the new right-hand side has J's local
\* row count, and the returned A' was not moved to the backend.
C12_PartitionOrder ==
    \A r \in Ranks :
        Repartitioned(r) =>
            /\ PartitionSteps(r) =
                  << Op("partitioner", "I", <<"A", cfg.aggr_block>>),
                     Op("transpose", "J", <<"I">>),
                     Op("product", "AI", <<"A", "I">>),
                     Op("product", "JAI", <<"J", "AI">>),
                     Op("move_to_backend", "J", <<"J">>),
                     Op("spmv", "new_rhs", <<"J", "rhs">>),
                     Op("swap", "rhs", <<"rhs", "new_rhs">>) >>
            /\ \E x, y \in 1..Len(log[r]) :
                  /\ x < y
                  /\ MovedAt(r, x) /\ log[r][x].obj = "J"
                  /\ log[r][y].op = "spmv" /\ Uses(r, y, "J")
            /\ \E x \in 1..Len(log[r]) :
                  /\ log[r][x].op = "new_rhs"
                  /\ log[r][x].args[1] = "J"
                  /\ Len(rhsv[r]) = log[r][x].args[2]
            /\ A[r].name = "JAI" /\ ~A[r].moved
            /\ \A x \in 1..Len(log[r]) :
                  ~(MovedAt(r, x) /\ log[r][x].obj = "JAI")

\* C12 witness: partition() has just returned on a rank of a repartitioned
\* run, with a right-hand side whose length changed to the rows of J.
C12_Witness ==
    \E r \in Ranks :
        /\ Repartitioned(r) /\ pc[r] = "setup"
        /\ Len(rhsv[r]) = MaxNewRows
        /\ Len(rhsv[r]) # Len(BackendRhs(loc[r].rhs, loc[r].chunk, cfg.block_size))

\* The collective operations: every rank of the group has to take part.
Collectives ==
    {"construct", "partitioner", "transpose", "product", "setup", "solve"}

\* The collective operations rank r has issued, in order.
CollectiveSeq(r) ==
    LET c == SelectSeq(log[r], LAMBDA o : o.op \in Collectives)
    IN  [x \in 1..Len(c) |-> <<c[x].op, c[x].obj>>]

Ended(r) == pc[r] \in {"done", "crashed"}

\* C13: for every configuration and process count all ranks of mpi_amg issue
\* the same sequence of collective operations, ranks with an empty row range
\* included, so that no rank waits at a collective another rank never
\* reaches (stated of every two ranks whose main() has ended).
C13_SameCollectives ==
    \A r, q \in Ranks :
        (Ended(r) /\ Ended(q)) => CollectiveSeq(r) = CollectiveSeq(q)

====
